---- MODULE Spec2Model ----
(***************************************************************************)
(* The poker backend of src/main.py and src/db.py as a state machine.      *)
(*                                                                         *)
(* The database is the only shared state: four tables (venues, players,    *)
(* games, results).  Every request runs in a slot q: it opens a connection *)
(* with get_conn(), executes its SQL statements one at a time (the         *)
(* connection is opened with autocommit=True, so each statement commits on *)
(* its own and is a separate step that other requests interleave with),    *)
(* and leaves the `with get_conn() as conn:` block, which closes the       *)
(* connection.  Opening the connection is folded into the step of the      *)
(* request's first statement and closing it into the step of its last      *)
(* one: neither touches a table.                                           *)
(*                                                                         *)
(* Columns no handler branches on (game_title, start_time, address, city,  *)
(* state, avatar_url, created_at) are carried through by the code and left *)
(* out of the rows here, and so are the three list endpoints, which read   *)
(* them.  Ids are serial: a row's id is its position in its table.         *)
(***************************************************************************)
EXTENDS Integers, Sequences, FiniteSets

VARIABLES
  dbUrl,      \* os.getenv("DATABASE_URL") is set
  ciUnique,   \* the store has a unique index on lower(name) of venues and players
  venues,     \* venues table: venues[venue_id] = venue_name
  players,    \* players table: players[player_id] = display_name
  games,      \* games table: games[game_id] = [venue_id, status]
  results,    \* results table: a set of rows
  pc,         \* pc[q]: where the request in slot q stands
  call,       \* call[q]: the request slot q serves: its arguments and local variables
  conn,       \* conn[q]: "none" | "open" | "closed"
  stmts,      \* stmts[q]: SQL statements the slot's request has executed
  resp,       \* resp[q]: the response of the slot's finished request
  latest      \* history: latest[<<g, p>>] = the values of the last upsert applied for the pair

vars == <<dbUrl, ciUnique, venues, players, games, results,
          pc, call, conn, stmts, resp, latest>>

db == <<venues, players, games, results>>

env == <<dbUrl, ciUnique>>

-----------------------------------------------------------------------------
(* Bounds and input sets *)

MaxVenues == 2
MaxPlayers == 2
MaxGames == 2
MaxBatch == 2

NULL == 0

Reqs == {1, 2}

\* Names are sequences of characters; the alphabet has both cases of one letter.
Names == {<<"a">>, <<"A">>, <<"b">>}

\* Ids a request may name: every id a table can hold and one it cannot.
VenueIds == 1..(MaxVenues + 1)
PlayerIds == 1..(MaxPlayers + 1)
GameIds == 1..(MaxGames + 1)

\* The value part of a ResultCreate row: two submissions that differ in every column.
ResultValues ==
  { [finish_rank |-> 1, points |-> 10, kos |-> 2, eliminated_by_player_id |-> NULL],
    [finish_rank |-> 2, points |-> 5,  kos |-> 0, eliminated_by_player_id |-> 2] }

ResultCreate ==
  { [finish_rank |-> v.finish_rank, player_id |-> p, points |-> v.points, kos |-> v.kos,
     eliminated_by_player_id |-> v.eliminated_by_player_id] : v \in ResultValues, p \in PlayerIds }

NoRow == [finish_rank |-> 0, player_id |-> 0, points |-> 0, kos |-> 0,
          eliminated_by_player_id |-> NULL]

NoLocal == [game_id |-> 0, status |-> "", venue_id |-> 0, venue_name |-> <<>>]

NoCall == [op |-> "none", name |-> <<>>, id |-> 0, n |-> 0, row |-> NoRow, local |-> NoLocal]

NoResp == [status |-> 0, detail |-> "", body |-> <<>>]

-----------------------------------------------------------------------------
(* Responses *)

Ok(body) == [status |-> 200, detail |-> "", body |-> body]

HTTPException(status_code, what) ==
  [status |-> status_code, detail |-> "HTTPException", body |-> what]

\* An exception no handler catches: the framework answers 500.
Unhandled(kind) == [status |-> 500, detail |-> kind, body |-> <<>>]

-----------------------------------------------------------------------------
(* The connection scope *)

Ready(q) == pc[q] \in {"idle", "done"}

\* get_conn() with DATABASE_URL unset: RuntimeError before psycopg.connect
ConfigError(q, c) ==
  /\ pc' = [pc EXCEPT ![q] = "done"]
  /\ call' = [call EXCEPT ![q] = c]
  /\ conn' = [conn EXCEPT ![q] = "none"]
  /\ stmts' = [stmts EXCEPT ![q] = 0]
  /\ resp' = [resp EXCEPT ![q] = Unhandled("RuntimeError")]
  /\ UNCHANGED <<db, latest, env>>

\* The connection is open, the request's first statement ran, the handler goes on.
Proceed(q, c, pcNext) ==
  /\ pc' = [pc EXCEPT ![q] = pcNext]
  /\ call' = [call EXCEPT ![q] = c]
  /\ conn' = [conn EXCEPT ![q] = "open"]
  /\ stmts' = [stmts EXCEPT ![q] = 1]
  /\ resp' = [resp EXCEPT ![q] = NoResp]
  /\ UNCHANGED env

FinishFirstLeak(q, c, r) ==
  /\ pc' = [pc EXCEPT ![q] = "done"]
  /\ call' = [call EXCEPT ![q] = c]
  /\ conn' = [conn EXCEPT ![q] = "open"]
  /\ stmts' = [stmts EXCEPT ![q] = 1]
  /\ resp' = [resp EXCEPT ![q] = r]
  /\ UNCHANGED env

\* The handler leaves the with block after its first statement, by return or raise.
FinishFirst(q, c, r) ==
  /\ pc' = [pc EXCEPT ![q] = "done"]
  /\ call' = [call EXCEPT ![q] = c]
  /\ conn' = [conn EXCEPT ![q] = "closed"]
  /\ stmts' = [stmts EXCEPT ![q] = 1]
  /\ resp' = [resp EXCEPT ![q] = r]
  /\ UNCHANGED env

\* The handler leaves the with block after a later statement, which ran or raised.
Finish(q, c, r) ==
  /\ pc' = [pc EXCEPT ![q] = "done"]
  /\ call' = [call EXCEPT ![q] = c]
  /\ conn' = [conn EXCEPT ![q] = "closed"]
  /\ stmts' = [stmts EXCEPT ![q] = stmts[q] + 1]
  /\ resp' = [resp EXCEPT ![q] = r]
  /\ UNCHANGED env

InFlight(op) == Cardinality({q \in Reqs : ~Ready(q) /\ call[q].op = op})

-----------------------------------------------------------------------------
(* SQL pieces *)

LowerChar(c) == IF c = "A" THEN "a" ELSE IF c = "B" THEN "b" ELSE c

LowerIdentity(s) == s

\* lower(text)
Lower(s) == [i \in DOMAIN s |-> LowerChar(s[i])]

\* where lower(venue_name) = lower(%(name)s) limit 1
VenueExists(name) == \E i \in DOMAIN venues : Lower(venues[i]) = Lower(name)

\* where lower(display_name) = lower(%(name)s) limit 1
PlayerExists(name) == \E i \in DOMAIN players : Lower(players[i]) = Lower(name)

VenueRowAny(venue_id) ==
  {[NoLocal EXCEPT !.venue_id = i, !.venue_name = venues[i]] :
     i \in {j \in DOMAIN venues : \A k \in DOMAIN venues : j <= k}}

\* select venue_id, venue_name from venues where venue_id = %(venue_id)s
VenueRow(venue_id) ==
  {[NoLocal EXCEPT !.venue_id = i, !.venue_name = venues[i]] :
     i \in {j \in DOMAIN venues : j = venue_id}}

GameExistsUnchecked(game_id) == TRUE

\* select 1 from games where game_id = %s
GameExists(game_id) == game_id \in DOMAIN games

\* from games g join venues v on v.venue_id = g.venue_id where g.game_id = %(game_id)s
GameRow(game_id) ==
  {[game_id |-> g, status |-> games[g].status, venue_id |-> games[g].venue_id,
    venue_name |-> venues[games[g].venue_id]] :
     g \in {x \in DOMAIN games : x = game_id /\ games[x].venue_id \in DOMAIN venues}}

\* from results r join players p on p.player_id = r.player_id where r.game_id = %(game_id)s
JoinPlayers(game_id) ==
  {r \in results : r.game_id = game_id /\ r.player_id \in DOMAIN players}

\* The select list: p.display_name as player, and eb.display_name as eliminated_by
\* through the left join (NULL when no player row matches).
LeaderboardEntry(r) ==
  [finish_rank |-> r.finish_rank,
   player |-> players[r.player_id],
   points |-> r.points,
   kos |-> r.kos,
   eliminated_by |-> IF r.eliminated_by_player_id \in DOMAIN players
                     THEN players[r.eliminated_by_player_id] ELSE <<>>]

RECURSIVE OrderByNothing(_)
OrderByNothing(rows) ==
  IF rows = {} THEN {<<>>}
  ELSE UNION {{<<r>> \o t : t \in OrderByNothing(rows \ {r})} : r \in rows}

\* order by r.finish_rank asc: every ordering of the rows with ranks ascending.  SQL
\* leaves the order of rows with equal finish_rank to the engine.
RECURSIVE OrderByFinishRank(_)
OrderByFinishRank(rows) ==
  IF rows = {} THEN {<<>>}
  ELSE UNION {{<<r>> \o t : t \in OrderByFinishRank(rows \ {r})} :
              r \in {x \in rows : \A y \in rows : x.finish_rank <= y.finish_rank}}

\* results_sql of get_game and the loop that builds the response's results list
GetGameResultsSql(game_id) ==
  {[i \in DOMAIN s |-> LeaderboardEntry(s[i])] : s \in OrderByFinishRank(JoinPlayers(game_id))}

GameResultsSqlNoWhere(game_id) ==
  {[i \in DOMAIN s |-> LeaderboardEntry(s[i])] :
     s \in OrderByFinishRank({r \in results : r.player_id \in DOMAIN players})}

\* sql of game_results and the loop that builds the response list
GameResultsSql(game_id) ==
  {[i \in DOMAIN s |-> LeaderboardEntry(s[i])] : s \in OrderByFinishRank(JoinPlayers(game_id))}

\* The store's foreign keys from results.player_id and results.eliminated_by_player_id
\* to players: the insert raises when one of them names no player.
ForeignKeyViolation(r) ==
  \/ r.player_id \notin DOMAIN players
  \/ r.eliminated_by_player_id # NULL /\ r.eliminated_by_player_id \notin DOMAIN players

UpsertDoNothing(tbl, game_id, r) ==
  IF \E x \in tbl : x.game_id = game_id /\ x.player_id = r.player_id
  THEN tbl
  ELSE tbl \cup {[game_id |-> game_id, finish_rank |-> r.finish_rank,
                  player_id |-> r.player_id, points |-> r.points, kos |-> r.kos,
                  eliminated_by_player_id |-> r.eliminated_by_player_id]}

\* insert into results ... on conflict (game_id, player_id) do update set ...
Upsert(tbl, game_id, r) ==
  IF \E x \in tbl : x.game_id = game_id /\ x.player_id = r.player_id
  THEN {IF x.game_id = game_id /\ x.player_id = r.player_id
        THEN [x EXCEPT !.finish_rank = r.finish_rank,
                       !.points = r.points,
                       !.kos = r.kos,
                       !.eliminated_by_player_id = r.eliminated_by_player_id]
        ELSE x : x \in tbl}
  ELSE tbl \cup {[game_id |-> game_id, finish_rank |-> r.finish_rank,
                  player_id |-> r.player_id, points |-> r.points, kos |-> r.kos,
                  eliminated_by_player_id |-> r.eliminated_by_player_id]}

\* History: what the last submission applied for a pair carried.
Record(h, game_id, r) ==
  [k \in DOMAIN h \cup {<<game_id, r.player_id>>} |->
     IF k = <<game_id, r.player_id>>
     THEN [finish_rank |-> r.finish_rank, points |-> r.points, kos |-> r.kos,
           eliminated_by_player_id |-> r.eliminated_by_player_id]
     ELSE h[k]]

-----------------------------------------------------------------------------
(* POST /venues *)

CreateVenueCall(q, name) ==
  LET c == [NoCall EXCEPT !.op = "create_venue", !.name = name] IN
  /\ Ready(q)
  /\ Len(venues) + InFlight("create_venue") < MaxVenues
  /\ IF ~dbUrl THEN ConfigError(q, c)
     ELSE /\ IF VenueExists(name)
             THEN FinishFirst(q, c, HTTPException(409, name))
             ELSE Proceed(q, c, "venue_insert")
          /\ UNCHANGED <<db, latest>>

CreateVenueInsertRecheck(q) ==
  /\ pc[q] = "venue_insert"
  /\ IF VenueExists(call[q].name)
     THEN /\ Finish(q, call[q], HTTPException(409, call[q].name))
          /\ UNCHANGED venues
     ELSE /\ venues' = Append(venues, call[q].name)
          /\ Finish(q, call[q], Ok([venue_id |-> Len(venues) + 1,
                                    venue_name |-> call[q].name]))
  /\ UNCHANGED <<players, games, results, latest>>

\* The insert runs unless the store's own unique index refuses it.
CreateVenueInsert(q) ==
  /\ pc[q] = "venue_insert"
  /\ IF ciUnique /\ VenueExists(call[q].name)
     THEN /\ Finish(q, call[q], Unhandled("UniqueViolation"))
          /\ UNCHANGED venues
     ELSE /\ venues' = Append(venues, call[q].name)
          /\ Finish(q, call[q], Ok([venue_id |-> Len(venues) + 1,
                                    venue_name |-> call[q].name]))
  /\ UNCHANGED <<players, games, results, latest>>

-----------------------------------------------------------------------------
(* POST /players *)

CreatePlayerCall(q, name) ==
  LET c == [NoCall EXCEPT !.op = "create_player", !.name = name] IN
  /\ Ready(q)
  /\ Len(players) + InFlight("create_player") < MaxPlayers
  /\ IF ~dbUrl THEN ConfigError(q, c)
     ELSE /\ IF PlayerExists(name)
             THEN FinishFirst(q, c, HTTPException(409, name))
             ELSE Proceed(q, c, "player_insert")
          /\ UNCHANGED <<db, latest>>

CreatePlayerInsert(q) ==
  /\ pc[q] = "player_insert"
  /\ IF ciUnique /\ PlayerExists(call[q].name)
     THEN /\ Finish(q, call[q], Unhandled("UniqueViolation"))
          /\ UNCHANGED players
     ELSE /\ players' = Append(players, call[q].name)
          /\ Finish(q, call[q], Ok([player_id |-> Len(players) + 1,
                                    display_name |-> call[q].name]))
  /\ UNCHANGED <<venues, games, results, latest>>

-----------------------------------------------------------------------------
(* GET /games/{game_id} *)

GetGameCall(q, game_id) ==
  LET c == [NoCall EXCEPT !.op = "get_game", !.id = game_id] IN
  /\ Ready(q)
  /\ IF ~dbUrl THEN ConfigError(q, c)
     ELSE /\ IF GameRow(game_id) = {}
             THEN FinishFirst(q, c, HTTPException(404, game_id))
             ELSE \E row \in GameRow(game_id) :
                    Proceed(q, [c EXCEPT !.local = row], "game_results")
          /\ UNCHANGED <<db, latest>>

GetGameResults(q) ==
  /\ pc[q] = "game_results"
  /\ \E results_rows \in GetGameResultsSql(call[q].id) :
       Finish(q, call[q],
              Ok([game_id |-> call[q].local.game_id,
                  status |-> call[q].local.status,
                  venue |-> [venue_id |-> call[q].local.venue_id,
                             venue_name |-> call[q].local.venue_name],
                  results |-> results_rows]))
  /\ UNCHANGED <<db, latest>>

(* GET /games/{game_id}/results *)

GameResultsCall(q, game_id) ==
  LET c == [NoCall EXCEPT !.op = "game_results", !.id = game_id] IN
  /\ Ready(q)
  /\ IF ~dbUrl THEN ConfigError(q, c)
     ELSE /\ \E rows \in GameResultsSql(game_id) : FinishFirst(q, c, Ok(rows))
          /\ UNCHANGED <<db, latest>>

-----------------------------------------------------------------------------
(* POST /games *)

\* The row sql_insert_game inserts: the venue_id is the one the check fetched.
NewGame(v) == [venue_id |-> v.venue_id, status |-> "scheduled"]

CreateGameCall(q, venue_id) ==
  LET c == [NoCall EXCEPT !.op = "create_game", !.id = venue_id] IN
  /\ Ready(q)
  /\ Len(games) + InFlight("create_game") < MaxGames
  /\ IF ~dbUrl THEN ConfigError(q, c)
     ELSE /\ IF VenueRow(venue_id) = {}
             THEN FinishFirst(q, c, HTTPException(400, venue_id))
             ELSE \E v \in VenueRow(venue_id) :
                    Proceed(q, [c EXCEPT !.local = v], "game_insert")
          /\ UNCHANGED <<db, latest>>

CreateGameInsert(q) ==
  /\ pc[q] = "game_insert"
  /\ games' = Append(games, NewGame(call[q].local))
  /\ Finish(q, call[q],
            Ok([game_id |-> Len(games) + 1,
                status |-> NewGame(call[q].local).status,
                venue |-> [venue_id |-> NewGame(call[q].local).venue_id,
                           venue_name |-> call[q].local.venue_name]]))
  /\ UNCHANGED <<venues, players, results, latest>>

-----------------------------------------------------------------------------
(* POST /games/{game_id}/results *)

GameNotFound404(game_id) == HTTPException(404, game_id)

\* return {"error": f"Game {game_id} not found"}: an ordinary 200 response
GameNotFound(game_id) == [status |-> 200, detail |-> "error", body |-> game_id]

\* The batch's length is fixed by the call; the handler reads results[i] only when
\* the loop reaches it, and the row is drawn then.
AddResultsCall(q, game_id, n) ==
  LET c == [NoCall EXCEPT !.op = "add_results", !.id = game_id, !.n = n] IN
  /\ Ready(q)
  /\ IF ~dbUrl THEN ConfigError(q, c)
     ELSE /\ IF ~GameExists(game_id)
             THEN FinishFirst(q, c, GameNotFound(game_id))
             ELSE IF n = 0
                  THEN FinishFirst(q, c, Ok([game_id |-> game_id, inserted_results |-> 0]))
                  ELSE Proceed(q, c, "upsert")
          /\ UNCHANGED <<db, latest>>

AddResultsUpsertSkip(q, r) ==
  LET c == [call[q] EXCEPT !.row = r]
      tbl == IF ForeignKeyViolation(r) THEN results ELSE Upsert(results, call[q].id, r) IN
  /\ pc[q] = "upsert"
  /\ results' = tbl
  /\ latest' = IF ForeignKeyViolation(r) THEN latest ELSE Record(latest, call[q].id, r)
  /\ IF stmts[q] = call[q].n
     THEN Finish(q, c, Ok([game_id |-> call[q].id, inserted_results |-> call[q].n]))
     ELSE /\ stmts' = [stmts EXCEPT ![q] = stmts[q] + 1]
          /\ call' = [call EXCEPT ![q] = c]
          /\ UNCHANGED <<pc, conn, resp, env>>
  /\ UNCHANGED <<venues, players, games>>

\* One iteration of `for r in results`: stmts[q] - 1 rows went before this one.  A
\* statement that raises ends the loop and the request.
AddResultsUpsert(q, r) ==
  LET c == [call[q] EXCEPT !.row = r] IN
  /\ pc[q] = "upsert"
  /\ IF ForeignKeyViolation(r)
     THEN /\ Finish(q, c, Unhandled("ForeignKeyViolation"))
          /\ UNCHANGED <<results, latest>>
     ELSE /\ results' = Upsert(results, call[q].id, r)
          /\ latest' = Record(latest, call[q].id, r)
          /\ IF stmts[q] = call[q].n
             THEN Finish(q, c, Ok([game_id |-> call[q].id,
                                   inserted_results |-> call[q].n]))
             ELSE /\ stmts' = [stmts EXCEPT ![q] = stmts[q] + 1]
                  /\ call' = [call EXCEPT ![q] = c]
                  /\ UNCHANGED <<pc, conn, resp, env>>
  /\ UNCHANGED <<venues, players, games>>

-----------------------------------------------------------------------------
(* Specifications *)

Init ==
  /\ dbUrl \in BOOLEAN
  /\ ciUnique \in BOOLEAN
  /\ venues = <<>>
  /\ players = <<>>
  /\ games = <<>>
  /\ results = {}
  /\ pc = [q \in Reqs |-> "idle"]
  /\ call = [q \in Reqs |-> NoCall]
  /\ conn = [q \in Reqs |-> "none"]
  /\ stmts = [q \in Reqs |-> 0]
  /\ resp = [q \in Reqs |-> NoResp]
  /\ latest = <<>>

\* One client: the check of a create precedes its insert with nothing in between, so
\* the store's unique index never comes into play and is left out.
InitSeq == Init /\ ~ciUnique

\* One client, one request at a time, every operation.
Next ==
  \/ CreateVenueCall(1, <<"a">>)
  \/ CreateVenueInsert(1)
  \/ \E name \in {<<"a">>, <<"b">>} : CreatePlayerCall(1, name)
  \/ CreatePlayerInsert(1)
  \/ \E venue_id \in VenueIds : CreateGameCall(1, venue_id)
  \/ CreateGameInsert(1)
  \/ \E game_id \in GameIds : GetGameCall(1, game_id)
  \/ GetGameResults(1)
  \/ \E game_id \in GameIds : GameResultsCall(1, game_id)
  \/ \E game_id \in GameIds, n \in 0..MaxBatch : AddResultsCall(1, game_id, n)
  \/ \E r \in ResultCreate : AddResultsUpsert(1, r)

Spec == InitSeq /\ [][Next]_vars

\* One client creating venues and players, one request at a time, every name.
NextCreateSeq ==
  \/ \E name \in Names : CreateVenueCall(1, name)
  \/ CreateVenueInsert(1)
  \/ \E name \in Names : CreatePlayerCall(1, name)
  \/ CreatePlayerInsert(1)

SpecCreateSeq == InitSeq /\ [][NextCreateSeq]_vars

\* Two clients creating venues and players concurrently.
NextCreate ==
  \E q \in Reqs :
    \/ \E name \in Names : CreateVenueCall(q, name)
    \/ CreateVenueInsert(q)
    \/ \E name \in Names : CreatePlayerCall(q, name)
    \/ CreatePlayerInsert(q)

SpecCreate == Init /\ [][NextCreate]_vars

\* Two clients writing concurrently: venues, players, games and one-row batches.
NextConc ==
  \E q \in Reqs :
    \/ CreateVenueCall(q, <<"a">>)
    \/ CreateVenueInsert(q)
    \/ CreatePlayerCall(q, <<"a">>)
    \/ CreatePlayerInsert(q)
    \/ \E venue_id \in VenueIds : CreateGameCall(q, venue_id)
    \/ CreateGameInsert(q)
    \/ \E game_id \in GameIds : AddResultsCall(q, game_id, 1)
    \/ \E r \in {x \in ResultCreate : x.finish_rank = 1} : AddResultsUpsert(q, r)

SpecConc == Init /\ [][NextConc]_vars

-----------------------------------------------------------------------------
(* Vocabulary of the properties, stated without the model's SQL pieces *)

CasePairs == {{"a", "A"}, {"b", "B"}}

EqualUpToCase(s, t) ==
  /\ Len(s) = Len(t)
  /\ \A i \in DOMAIN s : s[i] = t[i] \/ {s[i], t[i]} \in CasePairs

NameTaken(tbl, name) == \E i \in DOMAIN tbl : EqualUpToCase(tbl[i], name)

NoDuplicateNames(tbl) ==
  \A i, j \in DOMAIN tbl : i # j => ~EqualUpToCase(tbl[i], tbl[j])

IsPrefix(s, t) == Len(s) <= Len(t) /\ \A i \in DOMAIN s : s[i] = t[i]

\* Slot q starts a request for op in this step.
Called(q, op) ==
  /\ Ready(q)
  /\ call'[q].op = op
  /\ \/ pc'[q] # pc[q]
     \/ call'[q] # call[q]
     \/ stmts'[q] # stmts[q]
     \/ resp'[q].status # resp[q].status

\* Slot q's request runs its last statement in this step, having stood at `at`.
Finished(q, at) == pc[q] = at /\ pc'[q] = "done"

ValuesOf(r) ==
  [finish_rank |-> r.finish_rank, points |-> r.points, kos |-> r.kos,
   eliminated_by_player_id |-> r.eliminated_by_player_id]

GameRows(g) == {r \in results : r.game_id = g}

MissingPlayer(r) ==
  \/ r.player_id \notin DOMAIN players
  \/ r.eliminated_by_player_id # NULL /\ r.eliminated_by_player_id \notin DOMAIN players

ExpectedEntry(r) ==
  [finish_rank |-> r.finish_rank,
   player |-> players[r.player_id],
   points |-> r.points,
   kos |-> r.kos,
   eliminated_by |-> IF r.eliminated_by_player_id = NULL
                     THEN <<>> ELSE players[r.eliminated_by_player_id]]

\* s lists each result row of game g once, and nothing else, ranks non-decreasing.
IsLeaderboard(s, g) ==
  /\ Len(s) = Cardinality(GameRows(g))
  /\ \A i \in 1..(Len(s) - 1) : s[i].finish_rank <= s[i + 1].finish_rank
  /\ \E f \in [1..Len(s) -> GameRows(g)] :
       /\ \A i, j \in 1..Len(s) : i # j => f[i] # f[j]
       /\ \A i \in 1..Len(s) : s[i] = ExpectedEntry(f[i])

-----------------------------------------------------------------------------
(* C1: after any sequence of addResults calls the results table holds at most one
   row per (game_id, player_id), and that row carries the finish_rank, points, kos
   and eliminated_by_player_id of the submission applied last for the pair. *)
C1_OneRowPerPairWithLatestValues ==
  /\ \A r1, r2 \in results :
       r1.game_id = r2.game_id /\ r1.player_id = r2.player_id => r1 = r2
  /\ \A r \in results :
       /\ <<r.game_id, r.player_id>> \in DOMAIN latest
       /\ ValuesOf(r) = latest[<<r.game_id, r.player_id>>]
  /\ \A k \in DOMAIN latest : \E r \in results : <<r.game_id, r.player_id>> = k

\* A batch of two rows for one player of one game has been applied: the second row
\* met the first.
C1_SamePlayerTwiceInOneBatch ==
  /\ pc[1] = "done" /\ call[1].op = "add_results" /\ resp[1].status = 200
  /\ call[1].n = 2 /\ stmts[1] = 3
  /\ GameRows(call[1].id) = {[game_id |-> call[1].id, finish_rank |-> 2,
                              player_id |-> call[1].row.player_id, points |-> 5,
                              kos |-> 0, eliminated_by_player_id |-> 2]}

(* C2: with DATABASE_URL set and one create at a time, createVenue (createPlayer)
   for a name that equals an existing one up to letter case answers 409 and leaves
   the table as it is; for a name that matches none it inserts exactly one row,
   holding that name. *)
C2_CreateConflictsOrInsertsOne ==
  [][\A q \in Reqs :
       /\ Called(q, "create_venue") /\ dbUrl =>
            /\ venues' = venues
            /\ IF NameTaken(venues, call'[q].name)
               THEN pc'[q] = "done" /\ resp'[q].status = 409
               ELSE pc'[q] = "venue_insert"
       /\ Finished(q, "venue_insert") =>
            /\ ~NameTaken(venues, call[q].name)
            /\ venues' = Append(venues, call[q].name)
            /\ resp'[q].status = 200
       /\ Called(q, "create_player") /\ dbUrl =>
            /\ players' = players
            /\ IF NameTaken(players, call'[q].name)
               THEN pc'[q] = "done" /\ resp'[q].status = 409
               ELSE pc'[q] = "player_insert"
       /\ Finished(q, "player_insert") =>
            /\ ~NameTaken(players, call[q].name)
            /\ players' = Append(players, call[q].name)
            /\ resp'[q].status = 200]_vars

\* A create was refused for a name that differs from the stored one in case only.
C2_RefusedCaseVariant ==
  /\ pc[1] = "done" /\ call[1].op = "create_venue" /\ resp[1].status = 409
  /\ \E i \in DOMAIN venues :
       venues[i] # call[1].name /\ EqualUpToCase(venues[i], call[1].name)

(* C3: with DATABASE_URL set, createGame for a venue_id that is not in the venues
   table answers 400 and adds no game row; for an existing venue_id it inserts
   exactly one game row, with status "scheduled" and the venue_id supplied. *)
C3_CreateGameChecksVenue ==
  [][\A q \in Reqs :
       /\ Called(q, "create_game") /\ dbUrl =>
            /\ games' = games
            /\ IF call'[q].id \notin DOMAIN venues
               THEN pc'[q] = "done" /\ resp'[q].status = 400
               ELSE pc'[q] = "game_insert"
       /\ Finished(q, "game_insert") =>
            /\ games' = Append(games, [venue_id |-> call[q].id, status |-> "scheduled"])
            /\ resp'[q].status = 200]_vars

\* A game was refused for an unknown venue_id while the venues table held a venue.
C3_RefusedUnknownVenue ==
  /\ pc[1] = "done" /\ call[1].op = "create_game" /\ resp[1].status = 400
  /\ Len(venues) > 0 /\ call[1].id \notin DOMAIN venues

(* C4: with DATABASE_URL set, for a game_id no createGame has produced getGame
   answers 404 and listGameResults answers 200 with the empty list; neither request
   changes a table, at any of its steps. *)
C4_UnknownGameAsymmetry ==
  [][\A q \in Reqs :
       /\ Called(q, "get_game") /\ dbUrl /\ call'[q].id \notin DOMAIN games =>
            pc'[q] = "done" /\ resp'[q].status = 404
       /\ Called(q, "game_results") /\ dbUrl /\ call'[q].id \notin DOMAIN games =>
            pc'[q] = "done" /\ resp'[q].status = 200 /\ resp'[q].body = <<>>
       /\ Called(q, "get_game") \/ Called(q, "game_results")
            \/ Finished(q, "game_results") => db' = db]_vars

\* listGameResults answered the empty list for an unknown game while the results
\* table held rows.
C4_EmptyListForUnknownGame ==
  /\ pc[1] = "done" /\ call[1].op = "game_results" /\ resp[1].status = 200
  /\ call[1].id \notin DOMAIN games
  /\ resp[1].body = <<>>
  /\ results # {}

(* C5: with DATABASE_URL set, addResults for a game_id that does not exist answers
   an ordinary 200 response carrying an error field, having executed the existence
   check and no upsert, and leaves every table as it is, whatever the batch. *)
C5_UnknownGameIsErrorPayload ==
  [][\A q \in Reqs :
       Called(q, "add_results") /\ dbUrl /\ call'[q].id \notin DOMAIN games =>
         /\ pc'[q] = "done"
         /\ resp'[q].status = 200 /\ resp'[q].detail = "error"
         /\ stmts'[q] = 1
         /\ db' = db]_vars

\* A non-empty batch for an unknown game was answered with the error payload.
C5_ErrorPayloadForBatch ==
  /\ pc[1] = "done" /\ call[1].op = "add_results" /\ resp[1].detail = "error"
  /\ call[1].n = MaxBatch /\ call[1].id \notin DOMAIN games
  /\ Len(games) > 0

(* C6: a create that has passed its existence check inserts its row whatever has
   been inserted since, unless the store itself has a case-insensitive unique index;
   only with that index do the tables stay free of names equal up to case.  (The
   witness is the race: both requests passed the check before either inserted.) *)
C6_CheckThenInsertIsNotAtomic ==
  [][/\ ciUnique => NoDuplicateNames(venues') /\ NoDuplicateNames(players')
     /\ \A q \in Reqs :
          /\ Finished(q, "venue_insert") /\ ~ciUnique =>
               venues' = Append(venues, call[q].name) /\ resp'[q].status = 200
          /\ Finished(q, "player_insert") /\ ~ciUnique =>
               players' = Append(players, call[q].name) /\ resp'[q].status = 200]_vars

\* Both concurrent creates were answered 200 and the table holds two names equal up
\* to case.
C6_DuplicateAdmitted ==
  /\ pc[1] = "done" /\ call[1].op = "create_venue" /\ resp[1].status = 200
  /\ pc[2] = "done" /\ call[2].op = "create_venue" /\ resp[2].status = 200
  /\ EqualUpToCase(call[1].name, call[2].name)
  /\ \E i, j \in DOMAIN venues :
       i # j /\ venues[i] = call[1].name /\ venues[j] = call[2].name

(* C7: when the upsert of a batch's i-th row fails because a player it names does
   not exist, the request ends there with a server error and the results table is
   left as it was: the rows before i stay, no row from i on is applied (the table
   changes only in a step of a running batch, and a row that does not fail is
   applied in its own step). *)
C7_FailedUpsertAbortsWithoutRollback ==
  [][/\ \A q \in Reqs :
          pc[q] = "upsert" /\ stmts'[q] # stmts[q] =>
            IF MissingPlayer(call'[q].row)
            THEN /\ results' = results
                 /\ pc'[q] = "done"
                 /\ resp'[q].status = 500
            ELSE \E x \in results' :
                   /\ x.game_id = call[q].id
                   /\ x.player_id = call'[q].row.player_id
                   /\ ValuesOf(x) = ValuesOf(call'[q].row)
     /\ (\A q \in Reqs : pc[q] # "upsert") => results' = results]_vars

\* The second row of a batch failed and the game still holds the row applied before.
C7_SecondRowFailedFirstStays ==
  /\ pc[1] = "done" /\ call[1].op = "add_results" /\ resp[1].status = 500
  /\ call[1].n = 2 /\ stmts[1] = 3
  /\ Cardinality(results) = 1
  /\ \E x \in results : x.game_id = call[1].id /\ x.player_id # call[1].row.player_id

(* C8: a finished request holds no open connection, whichever way it left the
   connection scope; a running one holds an open connection; and with DATABASE_URL
   unset no request opens a connection or executes a statement: each ends with the
   configuration error. *)
C8_ConnectionReleased ==
  \A q \in Reqs :
    /\ pc[q] = "done" => conn[q] # "open"
    /\ pc[q] = "done" /\ dbUrl => conn[q] = "closed" /\ stmts[q] >= 1
    /\ pc[q] \notin {"idle", "done"} => conn[q] = "open"
    /\ ~dbUrl =>
         /\ conn[q] = "none" /\ stmts[q] = 0
         /\ pc[q] \in {"idle", "done"}
         /\ pc[q] = "done" => resp[q].status = 500 /\ resp[q].detail = "RuntimeError"
         /\ results = {} /\ venues = <<>> /\ players = <<>> /\ games = <<>>

\* A request whose SQL statement failed has closed its connection.
C8_ClosedAfterFailedStatement ==
  /\ pc[1] = "done" /\ resp[1].status = 500 /\ resp[1].detail = "ForeignKeyViolation"
  /\ conn[1] = "closed"

(* C9: for every existing game the results query of getGame and the query of
   listGameResults have the same outcomes, each of them the game's leaderboard: one
   entry per result row of the game, none of another game, ranks non-decreasing,
   with the participant's name and the eliminator's name or none; the outcome is
   unique when the game's ranks are distinct (SQL leaves the order of equal ranks
   open); and the response a finished read holds is such a leaderboard. *)
C9_SameLeaderboard ==
  /\ \A r \in results : ~MissingPlayer(r)
  /\ \A g \in DOMAIN games :
       /\ GetGameResultsSql(g) = GameResultsSql(g)
       /\ GetGameResultsSql(g) # {}
       /\ \A s \in GetGameResultsSql(g) \cup GameResultsSql(g) : IsLeaderboard(s, g)
       /\ (\A r1, r2 \in GameRows(g) : r1 # r2 => r1.finish_rank # r2.finish_rank)
            => Cardinality(GetGameResultsSql(g) \cup GameResultsSql(g)) = 1
  /\ \A q \in Reqs :
       pc[q] = "done" /\ resp[q].status = 200 /\ resp[q].detail = "" =>
         /\ call[q].op = "get_game" =>
              /\ resp[q].body.game_id = call[q].id
              /\ IsLeaderboard(resp[q].body.results, call[q].id)
         /\ call[q].op = "game_results" /\ call[q].id \in DOMAIN games =>
              IsLeaderboard(resp[q].body, call[q].id)

\* getGame returned a two-entry leaderboard with distinct ranks while another game
\* had results of its own.
C9_TwoEntriesOtherGameHasRows ==
  /\ pc[1] = "done" /\ call[1].op = "get_game" /\ resp[1].status = 200
  /\ Len(resp[1].body.results) = 2
  /\ resp[1].body.results[1].finish_rank < resp[1].body.results[2].finish_rank
  /\ \E r \in results : r.game_id # call[1].id

(* C10: under any interleaving of concurrent requests every game row references
   an existing venue and every result row an existing game, and the venues and games
   tables only grow: no step removes or rewrites a row of either. *)
C10_ReferencesStayValid ==
  [][/\ \A g \in DOMAIN games' : games'[g].venue_id \in DOMAIN venues'
     /\ \A r \in results' : r.game_id \in DOMAIN games'
     /\ IsPrefix(venues, venues')
     /\ IsPrefix(games, games')]_vars

\* One request stands between its venue check and its game insert while another is
\* in the middle of a batch, with games and results already stored.
C10_CheckAndInsertInterleaved ==
  /\ pc[1] = "game_insert" /\ pc[2] = "upsert"
  /\ Len(games) > 0 /\ results # {}

====
